---------------------------- MODULE Spec2Model ----------------------------
(***************************************************************************)
(* Weighted-average wirelength: forward kernel, forward wrapper and        *)
(* backward wrapper of weighted_average_wirelength_merged.cpp.             *)
(*                                                                         *)
(* Numbers.  The scalar type T (float or double) is modelled as rounded    *)
(* fixed-point arithmetic: the integer k stands for the real k / SCALE,    *)
(* sums and differences are exact, products and quotients are rounded to   *)
(* the nearest representable value (ties to even, symmetric in the sign    *)
(* as IEEE-754 rounding is).  A division by zero yields NaN, which every   *)
(* operation propagates (IEEE's +-inf are folded into it).  Arrays keep    *)
(* the 0-based indices of the source: an array of n elements is a          *)
(* function on 0..n-1.                                                     *)
(***************************************************************************)
EXTENDS Integers, Sequences, FiniteSets, TLC

\* resolution of the modelled scalar type: one unit is 1/SCALE
SCALE == 16
\* stand-in for the C constant FLT_MAX, larger than every modelled coordinate
FLT_MAX == 1000000

NaN == -(2^30)

Abs(a) == IF a < 0 THEN -a ELSE a

\* a / b rounded to the nearest integer, ties to even; b # 0
RDiv(a, b) ==
    LET n == Abs(a)
        d == Abs(b)
        q == n \div d
        r == n % d
        m == IF 2 * r > d \/ (2 * r = d /\ q % 2 = 1) THEN q + 1 ELSE q
    IN  IF (a < 0) # (b < 0) THEN -m ELSE m

\* the operations of T take their operands by value: each is written as a
\* function applied to the operands, so an operand is evaluated once
Add(a, b) ==
    LET add[x \in Int, y \in Int] == IF x = NaN \/ y = NaN THEN NaN ELSE x + y
    IN  add[a, b]
Sub(a, b) ==
    LET sub[x \in Int, y \in Int] == IF x = NaN \/ y = NaN THEN NaN ELSE x - y
    IN  sub[a, b]
Neg(a) ==
    LET neg[x \in Int] == IF x = NaN THEN NaN ELSE -x
    IN  neg[a]
Mul(a, b) ==
    LET mul[x \in Int, y \in Int] ==
            IF x = NaN \/ y = NaN THEN NaN ELSE RDiv(x * y, SCALE)
    IN  mul[a, b]
Div(a, b) ==
    LET div[x \in Int, y \in Int] ==
            IF x = NaN \/ y = NaN \/ y = 0 THEN NaN ELSE RDiv(x * SCALE, y)
    IN  div[a, b]
Max(a, b) ==
    LET max[x \in Int, y \in Int] == IF x < y THEN y ELSE x
    IN  max[a, b]
Min(a, b) ==
    LET min[x \in Int, y \in Int] == IF y < x THEN y ELSE x
    IN  min[a, b]

\* exp(k / SCALE) in units of 1/SCALE: halve the argument until it is at
\* most 1/2 in magnitude, then sum the series 1 + t + t^2/2 + t^3/6 + t^4/24
RECURSIVE Exp(_)
Exp(k) ==
    LET exp[x \in Int] ==
            IF x = NaN THEN NaN
            ELSE IF x = 0 THEN SCALE
            ELSE IF 2 * Abs(x) > SCALE
                 THEN LET h == IF x < 0 THEN -((-x) \div 2) ELSE x \div 2
                          e == Exp(h)
                      IN  IF x - h = h THEN Mul(e, e) ELSE Mul(e, Exp(x - h))
            ELSE SCALE + x + RDiv(x * x, 2 * SCALE)
                       + RDiv(x * x * x, 6 * SCALE * SCALE)
                       + RDiv(x * x * x * x, 24 * SCALE * SCALE * SCALE)
    IN  exp[k]


(***************************************************************************)
(* State.  The arguments of one forward call and of the backward calls     *)
(* that follow it, the two buffers the forward call allocates, the shared  *)
(* loop counter and the workers of the parallel loop, and what the calls   *)
(* returned.                                                               *)
(***************************************************************************)
VARIABLES
    pos,                \* pin locations, x array followed by y array
    flat_netpin,        \* pins of each net, abutting
    netpin_start,       \* start of each net in flat_netpin, num_nets + 1 entries
    net_mask,           \* one flag per net
    net_weights,        \* empty, or one weight per net
    inv_gamma,          \* scalar
    num_threads,        \* thread count of the call
    grad_pos,           \* upstream scalar gradient given to backward
    shape,              \* is_cuda / ndimension / is_contiguous / numel of each tensor
    phase,              \* "idle", "parallel", "returned", "backward", "failed"
    partial_wl,         \* at::zeros({num_nets, 2}), slot 2 * net + axis
    grad_intermediate,  \* at::zeros_like(pos)
    next_iter,          \* next unclaimed iteration of the dynamic schedule
    workers,            \* per thread: pc, current iteration i, chunk end hi, pin cursor j
    wl,                 \* <<>> until forward returns, then <<total cost>>
    grad_out,           \* the gradients the backward calls returned, in call order
    exec_count,         \* how many times the body of each iteration was entered
    wl_writers,         \* per partial_wl slot, the iterations that wrote it
    grad_writers,       \* per grad_intermediate slot, the iterations that wrote it
    agg_seen,           \* the partial_wl buffer as the aggregation read it
    args,               \* the arguments of a call of adjust_node_area_forward
    launch,             \* the integer parameters of the launcher, as the call bound them
    area_phase,         \* "off", "idle", "parallel", "returned", "failed", "crashed"
    instance_route_area,\* at::empty({num_nodes})
    area_done,          \* the iterations of the launcher's loop that have run
    area_writes,        \* the indices of instance_route_area stored to
    map_reads           \* the indices of routing_utilization_map read

inputs == <<pos, flat_netpin, netpin_start, net_mask, net_weights, inv_gamma,
            num_threads, grad_pos, shape>>
buffers == <<partial_wl, grad_intermediate>>
ghosts == <<exec_count, wl_writers, grad_writers>>
vars_wl == <<inputs, phase, buffers, next_iter, workers, wl, grad_out, ghosts, agg_seen>>
node_area == <<args, launch, area_phase, instance_route_area, area_done, area_writes, map_reads>>
vars == <<vars_wl, node_area>>

\* the array a[0], ..., a[n-1] holding the elements of the sequence s
Arr(s) == [k \in 0..(Len(s) - 1) |-> s[k + 1]]
Zeros(n) == [k \in 0..(n - 1) |-> 0]
numel(a) == Cardinality(DOMAIN a)

num_nets == shape["netpin_start"].numel - 1
num_pins == shape["pos"].numel \div 2

(***************************************************************************)
(* computeWeightedAverageWirelengthMergedLauncher: the body of iteration i *)
(***************************************************************************)
net_of(i) == i \div 2
\* faulty variant of active: the mask is not consulted
active_unmasked(i) == TRUE
\* line 41: the iteration does nothing for a net whose mask is off
active(i) == net_mask[net_of(i)]
\* offset of the axis of iteration i in pos and in grad_intermediate:
\* values = x, grads = grad_intermediate_x for even i, the y halves for odd i
axis_base(i) == IF i % 2 = 1 THEN num_pins ELSE 0
values(i, p) == pos[axis_base(i) + p]
net_begin(i) == netpin_start[net_of(i)]
net_end(i) == netpin_start[net_of(i) + 1]

RECURSIVE x_max_loop(_, _, _)
x_max_loop(i, j, acc) ==
    IF j < net_end(i)
    THEN x_max_loop(i, j + 1, Max(values(i, flat_netpin[j]), acc))
    ELSE acc
x_max(i) == x_max_loop(i, net_begin(i), -FLT_MAX)

RECURSIVE x_min_loop(_, _, _)
x_min_loop(i, j, acc) ==
    IF j < net_end(i)
    THEN x_min_loop(i, j + 1, Min(values(i, flat_netpin[j]), acc))
    ELSE acc
x_min(i) == x_min_loop(i, net_begin(i), FLT_MAX)

\* the two exponent arguments of a pin value xx, and their exponentials
\* faulty variant of arg_x: the difference is taken the other way round
arg_x_flipped(xx, xmax) == Mul(Sub(xmax, xx), inv_gamma)
arg_x(xx, xmax) == Mul(Sub(xx, xmax), inv_gamma)
arg_nx(xx, xmin) == Mul(Sub(xmin, xx), inv_gamma)
exp_x(xx, xmax) == Exp(arg_x(xx, xmax))
exp_nx(xx, xmin) == Exp(arg_nx(xx, xmin))

\* the four running sums of an iteration
Sums == [xexp_x_sum : Int, xexp_nx_sum : Int, exp_x_sum : Int, exp_nx_sum : Int]

RECURSIVE sum_loop(_, _, _, _, _)
sum_loop(i, j, xmax, xmin, acc) ==
    LET body[a \in Sums] ==
            IF j < net_end(i)
            THEN LET xx == values(i, flat_netpin[j])
                     ex == exp_x(xx, xmax)
                     enx == exp_nx(xx, xmin)
                 IN  sum_loop(i, j + 1, xmax, xmin,
                         [xexp_x_sum  |-> Add(a.xexp_x_sum, Mul(xx, ex)),
                          xexp_nx_sum |-> Add(a.xexp_nx_sum, Mul(xx, enx)),
                          exp_x_sum   |-> Add(a.exp_x_sum, ex),
                          exp_nx_sum  |-> Add(a.exp_nx_sum, enx)])
            ELSE a
    IN  body[acc]
\* the four sums of iteration i
sums(i) == sum_loop(i, net_begin(i), x_max(i), x_min(i),
               [xexp_x_sum |-> 0, xexp_nx_sum |-> 0, exp_x_sum |-> 0, exp_nx_sum |-> 0])

\* the value stored in partial_wl[i]
net_wl(i) ==
    LET from_sums[s \in Sums] ==
            Sub(Div(s.xexp_x_sum, s.exp_x_sum), Div(s.xexp_nx_sum, s.exp_nx_sum))
    IN  from_sums[sums(i)]

\* the four coefficients, from the sums s of the iteration
b_x(s) == Div(inv_gamma, s.exp_x_sum)
a_x(s) == Div(Sub(SCALE, Mul(b_x(s), s.xexp_x_sum)), s.exp_x_sum)
b_nx(s) == Div(Neg(inv_gamma), s.exp_nx_sum)
a_nx(s) == Div(Sub(SCALE, Mul(b_nx(s), s.xexp_nx_sum)), s.exp_nx_sum)

\* the value stored in grads[flat_netpin[j]] by iteration i
grad_from_sums(s, i, j) ==
    LET xx == values(i, flat_netpin[j])
    IN  Sub(Mul(Add(a_x(s), Mul(b_x(s), xx)), exp_x(xx, x_max(i))),
            Mul(Add(a_nx(s), Mul(b_nx(s), xx)), exp_nx(xx, x_min(i))))
pin_grad(i, j) ==
    LET from_sums[s \in Sums] == grad_from_sums(s, i, j)
    IN  from_sums[sums(i)]

\* faulty variant of grad_slot: both axes store through the x pointer
grad_slot_x_only(i, j) == flat_netpin[j]
\* the slot of grad_intermediate that grads[flat_netpin[j]] is in iteration i
grad_slot(i, j) == axis_base(i) + flat_netpin[j]

chunk_size == Max(((2 * num_nets) \div num_threads) \div 16, 1)


\* faulty variant of wl_slot: one slot per net, shared by its two axes
wl_slot_per_net(i) == net_of(i)
\* the slot of partial_wl that iteration i stores to
wl_slot(i) == i

\* where a worker goes when it has finished iteration i of a chunk ending at hi
after_item(wk) ==
    IF wk.i + 1 < wk.hi
    THEN [pc |-> "item", i |-> wk.i + 1, hi |-> wk.hi, j |-> 0]
    ELSE [pc |-> "claim", i |-> 0, hi |-> 0, j |-> 0]

\* schedule(dynamic, chunk_size): a worker takes the next chunk_size
\* iterations off the shared counter, or leaves the loop when none are left
claim_lo == next_iter
claim_hi == Min(next_iter + chunk_size, 2 * num_nets)
loop_done == ~(next_iter < 2 * num_nets)

\* faulty variant of leave_loop: the thread keeps asking for iterations
leave_loop_spin == [pc |-> "claim", i |-> 0, hi |-> 0, j |-> 0]
\* a thread that finds no iteration left goes to the join at the end of the loop
leave_loop == [pc |-> "barrier", i |-> 0, hi |-> 0, j |-> 0]

Claim(w) ==
    /\ phase = "parallel"
    /\ workers[w].pc = "claim"
    /\ IF loop_done
       THEN /\ workers' = [workers EXCEPT ![w] = leave_loop]
            /\ UNCHANGED next_iter
       ELSE /\ workers' = [workers EXCEPT
                   ![w] = [pc |-> "item", i |-> claim_lo, hi |-> claim_hi, j |-> 0]]
            /\ next_iter' = claim_hi
    /\ UNCHANGED <<node_area, inputs, phase, buffers, wl, grad_out, ghosts, agg_seen>>

\* lines 40-82: the mask test, the three reductions and the store to partial_wl[i]
ExecItem(w) ==
    LET wk == workers[w]
        i == wk.i
    IN  /\ phase = "parallel"
        /\ wk.pc = "item"
        /\ exec_count' = [exec_count EXCEPT ![i] = @ + 1]
        /\ IF active(i)
           THEN /\ partial_wl' = [partial_wl EXCEPT ![wl_slot(i)] = net_wl(i)]
                /\ wl_writers' = [wl_writers EXCEPT ![wl_slot(i)] = @ \cup {i}]
                /\ workers' = [workers EXCEPT
                       ![w] = IF net_begin(i) < net_end(i)
                              THEN [wk EXCEPT !.pc = "grad", !.j = net_begin(i)]
                              ELSE after_item(wk)]
           ELSE /\ workers' = [workers EXCEPT ![w] = after_item(wk)]
                /\ UNCHANGED <<partial_wl, wl_writers>>
        /\ UNCHANGED <<node_area, inputs, phase, grad_intermediate, next_iter, wl, grad_out,
                       grad_writers, agg_seen>>

\* lines 89-96: one store grads[flat_netpin[j]] of the gradient loop
WriteGrad(w) ==
    LET wk == workers[w]
        i == wk.i
        j == wk.j
    IN  /\ phase = "parallel"
        /\ wk.pc = "grad"
        /\ grad_intermediate' = [grad_intermediate EXCEPT ![grad_slot(i, j)] = pin_grad(i, j)]
        /\ grad_writers' = [grad_writers EXCEPT ![grad_slot(i, j)] = @ \cup {i}]
        /\ workers' = [workers EXCEPT
               ![w] = IF j + 1 < net_end(i) THEN [wk EXCEPT !.j = j + 1] ELSE after_item(wk)]
        /\ UNCHANGED <<node_area, inputs, phase, partial_wl, next_iter, wl, grad_out,
                       exec_count, wl_writers, agg_seen>>

(***************************************************************************)
(* weighted_average_wirelength_forward                                     *)
(***************************************************************************)
CHECK_FLAT(t) == ~shape[t].is_cuda /\ shape[t].ndimension = 1
CHECK_EVEN(t) == shape[t].numel % 2 = 0
CHECK_CONTIGUOUS(t) == shape[t].is_contiguous

\* faulty variant of forward_checks: the parity of pos is not asserted
forward_checks_without_even ==
    /\ CHECK_FLAT("pos") /\ CHECK_CONTIGUOUS("pos")
    /\ CHECK_FLAT("flat_netpin") /\ CHECK_CONTIGUOUS("flat_netpin")
    /\ CHECK_FLAT("netpin_start") /\ CHECK_CONTIGUOUS("netpin_start")
    /\ CHECK_FLAT("net_weights") /\ CHECK_CONTIGUOUS("net_weights")
    /\ CHECK_FLAT("net_mask") /\ CHECK_CONTIGUOUS("net_mask")
    /\ CHECK_FLAT("pin2net_map") /\ CHECK_CONTIGUOUS("pin2net_map")

\* faulty variant of forward_checks: a pin listed twice is refused
forward_checks_distinct_pins ==
    /\ CHECK_FLAT("pos") /\ CHECK_EVEN("pos") /\ CHECK_CONTIGUOUS("pos")
    /\ CHECK_FLAT("flat_netpin") /\ CHECK_CONTIGUOUS("flat_netpin")
    /\ CHECK_FLAT("netpin_start") /\ CHECK_CONTIGUOUS("netpin_start")
    /\ CHECK_FLAT("net_weights") /\ CHECK_CONTIGUOUS("net_weights")
    /\ CHECK_FLAT("net_mask") /\ CHECK_CONTIGUOUS("net_mask")
    /\ CHECK_FLAT("pin2net_map") /\ CHECK_CONTIGUOUS("pin2net_map")
    /\ \A j1, j2 \in DOMAIN flat_netpin : flat_netpin[j1] = flat_netpin[j2] => j1 = j2

forward_checks ==
    /\ CHECK_FLAT("pos") /\ CHECK_EVEN("pos") /\ CHECK_CONTIGUOUS("pos")
    /\ CHECK_FLAT("flat_netpin") /\ CHECK_CONTIGUOUS("flat_netpin")
    /\ CHECK_FLAT("netpin_start") /\ CHECK_CONTIGUOUS("netpin_start")
    /\ CHECK_FLAT("net_weights") /\ CHECK_CONTIGUOUS("net_weights")
    /\ CHECK_FLAT("net_mask") /\ CHECK_CONTIGUOUS("net_mask")
    /\ CHECK_FLAT("pin2net_map") /\ CHECK_CONTIGUOUS("pin2net_map")

\* an assertion of the forward call fails: the call throws before it allocates
ForwardReject ==
    /\ phase = "idle"
    /\ ~forward_checks
    /\ phase' = "failed"
    /\ UNCHANGED <<node_area, inputs, buffers, next_iter, workers, wl, grad_out, ghosts, agg_seen>>

\* lines 139-157: the two buffers are allocated zeroed and the parallel loop starts
ForwardLaunch ==
    /\ phase = "idle"
    /\ forward_checks
    /\ phase' = "parallel"
    /\ partial_wl' = Zeros(2 * num_nets)
    /\ grad_intermediate' = Zeros(shape["pos"].numel)
    /\ next_iter' = 0
    /\ workers' = [w \in 1..num_threads |-> [pc |-> "claim", i |-> 0, hi |-> 0, j |-> 0]]
    /\ exec_count' = Zeros(2 * num_nets)
    /\ wl_writers' = [k \in 0..(2 * num_nets - 1) |-> {}]
    /\ grad_writers' = [k \in 0..(shape["pos"].numel - 1) |-> {}]
    /\ UNCHANGED <<node_area, inputs, wl, grad_out, agg_seen>>

\* faulty variant of loop_joined: the code after the loop does not wait for the team
loop_joined_nowait == TRUE
\* the parallel loop ends when every thread of the team has left it
loop_joined == \A w \in DOMAIN workers : workers[w].pc = "barrier"

\* faulty variant of weighted: the buffer is taken as an x half followed by a y half
weighted_by_halves(buf) ==
    IF shape["net_weights"].numel # 0
    THEN [k \in DOMAIN buf |-> Mul(buf[k], net_weights[k % num_nets])]
    ELSE buf
\* partial_wl.mul_(net_weights.view({num_nets, 1})): row n, both axes, times net_weights[n]
weighted(buf) ==
    IF shape["net_weights"].numel # 0
    THEN [k \in DOMAIN buf |-> Mul(buf[k], net_weights[k \div 2])]
    ELSE buf

\* the sum of buf[lo], ..., buf[hi - 1], taken by halves
RECURSIVE sum_from(_, _, _)
sum_from(buf, lo, hi) ==
    IF hi - lo <= 0 THEN 0
    ELSE IF hi - lo = 1 THEN buf[lo]
    ELSE LET mid == (lo + hi) \div 2
         IN  Add(sum_from(buf, lo, mid), sum_from(buf, mid, hi))
\* partial_wl.sum()
sum(buf) == sum_from(buf, 0, numel(buf))

\* lines 158-165: after the loop, the weighting, the sum and the return
Aggregate ==
    /\ phase = "parallel"
    /\ loop_joined
    /\ agg_seen' = <<partial_wl>>
    /\ partial_wl' = weighted(partial_wl)
    /\ wl' = <<sum(weighted(partial_wl))>>
    /\ phase' = "returned"
    /\ UNCHANGED <<node_area, inputs, grad_intermediate, next_iter, workers, grad_out, ghosts>>


(***************************************************************************)
(* weighted_average_wirelength_backward                                    *)
(***************************************************************************)
backward_checks ==
    /\ forward_checks
    /\ CHECK_FLAT("grad_intermediate") /\ CHECK_EVEN("grad_intermediate")
    /\ CHECK_CONTIGUOUS("grad_intermediate")

\* faulty variant of mul_: the upstream gradient is dropped
mul_dropped(buf, c) == buf
\* grad_intermediate.mul_(grad_pos): every element times the upstream scalar
mul_(buf, c) == [k \in DOMAIN buf |-> Mul(buf[k], c)]

\* the net whose range of flat_netpin holds position j
net_at(j) == CHOOSE n \in 0..(num_nets - 1) : netpin_start[n] <= j /\ j < netpin_start[n + 1]

\* integrateNetWeightsLauncher: the x and the y gradient of every pin of
\* every net, times the weight of that net
RECURSIVE integrate_from(_, _)
integrate_from(buf, j) ==
    IF j < shape["flat_netpin"].numel
    THEN LET pin == flat_netpin[j]
             w == net_weights[net_at(j)]
         IN  integrate_from([buf EXCEPT ![pin] = Mul(@, w),
                                        ![num_pins + pin] = Mul(@, w)], j + 1)
    ELSE buf
integrateNetWeightsLauncher(buf) == integrate_from(buf, 0)

\* what the call leaves in the buffer grad_out shares with grad_intermediate
backward_result(buf) ==
    IF shape["net_weights"].numel # 0
    THEN integrateNetWeightsLauncher(mul_(buf, grad_pos))
    ELSE mul_(buf, grad_pos)

\* number of backward calls the model follows after one forward call
MaxBackward == 2

BackwardReject ==
    /\ phase \in {"returned", "backward"}
    /\ ~backward_checks
    /\ phase' = "failed"
    /\ UNCHANGED <<node_area, inputs, buffers, next_iter, workers, wl, grad_out, ghosts, agg_seen>>

\* lines 205-222; grad_out is the tensor grad_intermediate itself
Backward ==
    /\ phase \in {"returned", "backward"}
    /\ Len(grad_out) < MaxBackward
    /\ backward_checks
    /\ grad_intermediate' = backward_result(grad_intermediate)
    /\ grad_out' = Append(grad_out, grad_intermediate')
    /\ phase' = "backward"
    /\ UNCHANGED <<node_area, inputs, partial_wl, next_iter, workers, wl, ghosts, agg_seen>>

(***************************************************************************)
(* Inputs                                                                  *)
(***************************************************************************)
\* largest pin coordinate, in whole units
MaxCoord == 1
\* largest thread count
MaxThreads == 2

\* pin coordinates: the multiples of one half up to MaxCoord halves
Coords == {c * (SCALE \div 2) : c \in 0..MaxCoord}
AllPos(n) == [0..(n - 1) -> Coords]
\* pins spread over three distinct coordinates, x and y in different orders
RampPos(n) == {[k \in 0..(n - 1) |-> ((k * s) % 3) * (SCALE \div 2)] : s \in {1, 2}}

\* CSR topologies, each with the masks tried on it: nets of 1 and 2 pins,
\* one net of 3 pins, a net of 3 pins beside an empty net, two nets of 2
\* pins, two nets that share pin 1, and nets of 2 and 1 pins followed by
\* masked-out empty nets, enough of them for chunks of several iterations
AllMasks(n) == [0..(n - 1) -> BOOLEAN]
TopoSplit == [netpin_start |-> Arr(<<0, 1, 3>>), flat_netpin |-> Arr(<<2, 0, 1>>),
              pins |-> 3, masks |-> AllMasks(2)]
TopoOne == [netpin_start |-> Arr(<<0, 3>>), flat_netpin |-> Arr(<<0, 1, 2>>),
            pins |-> 3, masks |-> AllMasks(1)]
TopoEmpty == [netpin_start |-> Arr(<<0, 3, 3>>), flat_netpin |-> Arr(<<1, 2, 0>>),
              pins |-> 3, masks |-> AllMasks(2)]
TopoPairs == [netpin_start |-> Arr(<<0, 2, 4>>), flat_netpin |-> Arr(<<1, 0, 3, 2>>),
              pins |-> 4, masks |-> AllMasks(2)]
TopoShared == [netpin_start |-> Arr(<<0, 2, 4>>), flat_netpin |-> Arr(<<0, 1, 1, 2>>),
               pins |-> 3, masks |-> AllMasks(2)]
TopoWide == [netpin_start |-> [k \in 0..32 |-> IF k = 0 THEN 0 ELSE IF k = 1 THEN 2 ELSE 3],
             flat_netpin |-> Arr(<<1, 0, 2>>),
             pins |-> 3,
             masks |-> {[n \in 0..31 |-> n < 2]}]

Tensors == {"pos", "flat_netpin", "netpin_start", "net_weights", "net_mask",
            "pin2net_map", "grad_intermediate"}

\* the tensors as a well-formed call passes them
flat_shape(n) == [is_cuda |-> FALSE, ndimension |-> 1, is_contiguous |-> TRUE, numel |-> n]
good_shape(topo, nw) ==
    [t \in Tensors |->
        flat_shape(CASE t = "pos" -> 2 * topo.pins
                     [] t = "flat_netpin" -> numel(topo.flat_netpin)
                     [] t = "netpin_start" -> numel(topo.netpin_start)
                     [] t = "net_weights" -> nw
                     [] t = "net_mask" -> numel(topo.netpin_start) - 1
                     [] t = "pin2net_map" -> topo.pins
                     [] t = "grad_intermediate" -> 2 * topo.pins)]

\* one way a tensor can break the layout the calls assert
Faults == {<<t, k>> : t \in Tensors, k \in {"cuda", "ndim", "noncontiguous"}}
              \cup {<<"pos", "odd">>, <<"grad_intermediate", "odd">>}
NoFault == <<"none", "none">>

with_fault(sh, f) ==
    IF f = NoFault THEN sh
    ELSE [sh EXCEPT ![f[1]] =
            CASE f[2] = "cuda" -> [@ EXCEPT !.is_cuda = TRUE]
              [] f[2] = "ndim" -> [@ EXCEPT !.ndimension = 2]
              [] f[2] = "noncontiguous" -> [@ EXCEPT !.is_contiguous = FALSE]
              [] f[2] = "odd" -> [@ EXCEPT !.numel = @ + 1]]

\* no call of adjust_node_area_forward
no_area_call ==
    /\ args = <<>>
    /\ launch = <<>>
    /\ area_phase = "off"
    /\ instance_route_area = <<>>
    /\ area_done = {}
    /\ area_writes = {}
    /\ map_reads = {}

InitWith(topos, ramp, gammas, weights, unweighted, threads, ups, faults) ==
    \E topo \in topos, f \in faults :
      LET nn == numel(topo.netpin_start) - 1 IN
      \E w \in [0..(nn - 1) -> weights] \cup unweighted :
        /\ flat_netpin = topo.flat_netpin
        /\ netpin_start = topo.netpin_start
        /\ net_weights = w
        /\ shape = with_fault(good_shape(topo, numel(w)), f)
        /\ pos \in IF ramp THEN RampPos(shape["pos"].numel) ELSE AllPos(shape["pos"].numel)
        /\ net_mask \in topo.masks
        /\ inv_gamma \in gammas
        /\ num_threads \in threads
        /\ grad_pos \in ups
        /\ phase = "idle"
        /\ partial_wl = <<>>
        /\ grad_intermediate = <<>>
        /\ next_iter = 0
        /\ workers = <<>>
        /\ wl = <<>>
        /\ grad_out = <<>>
        /\ exec_count = <<>>
        /\ wl_writers = <<>>
        /\ grad_writers = <<>>
        /\ agg_seen = <<>>
        /\ no_area_call

Gammas == {SCALE \div 2, SCALE, 2 * SCALE, -SCALE}
Weights == {SCALE, 2 * SCALE}

\* one thread, every coordinate, every fault
Init ==
    \/ InitWith({TopoSplit, TopoEmpty}, FALSE, Gammas, {2 * SCALE}, {<<>>},
                {1}, {3 * SCALE}, {NoFault})
    \/ InitWith({TopoPairs}, TRUE, Gammas, Weights, {<<>>}, {1}, {SCALE, 3 * SCALE}, {NoFault})
    \/ InitWith({TopoSplit}, TRUE, {SCALE}, {2 * SCALE}, {<<>>}, {1}, {SCALE}, Faults)

\* every thread count, every topology, pins at distinct coordinates; the 64
\* iterations of the wide topology go in chunks of 4 to one thread and of 2
\* to two threads
InitPar ==
    \/ InitWith({TopoSplit, TopoOne, TopoEmpty, TopoPairs, TopoShared}, TRUE,
                {SCALE}, {2 * SCALE}, {<<>>}, 1..MaxThreads, {3 * SCALE},
                {NoFault, <<"pos", "odd">>, <<"grad_intermediate", "ndim">>})
    \/ InitWith({TopoWide}, TRUE, {SCALE}, {2 * SCALE}, {<<>>}, {1, 2}, {3 * SCALE},
                {NoFault})

Next ==
    \/ ForwardReject
    \/ ForwardLaunch
    \/ \E w \in DOMAIN workers : Claim(w)
    \/ \E w \in DOMAIN workers : ExecItem(w)
    \/ \E w \in DOMAIN workers : WriteGrad(w)
    \/ Aggregate
    \/ BackwardReject
    \/ Backward

Spec == Init /\ [][Next]_vars
SpecPar == InitPar /\ [][Next]_vars

\* a step of thread w of the team, whatever its position in the loop
WorkerStep(w) == w \in DOMAIN workers /\ (Claim(w) \/ ExecItem(w) \/ WriteGrad(w))

\* the operating system runs every thread of the team again and again, and the
\* calling thread goes on after the join; nothing makes a caller call
Fairness ==
    /\ \A w \in 1..MaxThreads : WF_vars(WorkerStep(w))
    /\ WF_vars(Aggregate)

\* the inputs of the fair executions: every thread count on one topology,
\* one and two threads on a topology with an empty net and on one with a
\* shared pin, and one thread on the wide topology, whose chunks hold four
\* iterations
InitFair ==
    \/ InitWith({TopoSplit}, TRUE, {SCALE}, {2 * SCALE}, {<<>>}, 1..MaxThreads,
                {3 * SCALE}, {NoFault, <<"pos", "odd">>, <<"grad_intermediate", "ndim">>})
    \/ InitWith({TopoEmpty, TopoShared}, TRUE, {SCALE}, {2 * SCALE}, {<<>>}, {1, 2},
                {3 * SCALE}, {NoFault})
    \/ InitWith({TopoWide}, TRUE, {SCALE}, {2 * SCALE}, {<<>>}, {1}, {3 * SCALE},
                {NoFault})

SpecFair == InitFair /\ [][Next]_vars /\ Fairness


(***************************************************************************)
(* adjust_node_area_forward and its launcher                               *)
(* computeInstanceRoutabilityOptimizationMapLauncher.  The bin sizes are   *)
(* one unit and the grid starts at the origin.  An element read outside    *)
(* its tensor has any value; a store outside its tensor changes nothing    *)
(* the model keeps, and after either the process may also die.             *)
(***************************************************************************)
MaxNodes == 2
MaxBins == 2

\* what a read outside a tensor may give
Garbage == {0, 3 * SCALE}
\* the content of at::empty before it is written
Uninitialized == NaN - 1

\* the value of element k of array a, 0-based
read(a, k) == IF k \in DOMAIN a THEN {a[k]} ELSE Garbage

\* int(v): the real v / SCALE truncated towards zero
to_int(v) == IF v < 0 THEN -((-v) \div SCALE) ELSE v \div SCALE

\* line 329
num_nodes == numel(args.pos) \div 2

\* lines 262-263
inv_bin_size_x == Div(SCALE, args.bin_size_x)
inv_bin_size_y == Div(SCALE, args.bin_size_y)

\* lines 276-284: the clamped bin box of a node spanning lo..hi on an axis of
\* nb bins, as the half-open range of bin indices
bin_index_l(lo, origin, inv_bin_size) == Max(to_int(Mul(Sub(lo, origin), inv_bin_size)), 0)
bin_index_h(hi, origin, inv_bin_size, nb) ==
    Min(to_int(Mul(Sub(hi, origin), inv_bin_size)) + 1, nb)
bin_box(lo, hi, origin, inv_bin_size, nb) ==
    bin_index_l(lo, origin, inv_bin_size)..(bin_index_h(hi, origin, inv_bin_size, nb) - 1)

\* line 294: the element of routing_utilization_map read for bin (x, y)
map_index(x, y) == x * launch.num_bins_y + y

\* lines 292-293
overlap(lo_x, hi_x, lo_y, hi_y, x, y) ==
    Mul(Sub(Min(hi_x, Mul((x + 1) * SCALE, args.bin_size_x)),
            Max(lo_x, Mul(x * SCALE, args.bin_size_x))),
        Sub(Min(hi_y, Mul((y + 1) * SCALE, args.bin_size_y)),
            Max(lo_y, Mul(y * SCALE, args.bin_size_y))))

\* lines 287-296: area summed over the bins of the box, u[k] being the value
\* read from element k of the map
RECURSIVE area_sum(_, _, _, _, _, _)
area_sum(cells, lo_x, hi_x, lo_y, hi_y, u) ==
    IF cells = {} THEN 0
    ELSE LET c == CHOOSE cc \in cells : \A dd \in cells :
                      cc[1] < dd[1] \/ (cc[1] = dd[1] /\ cc[2] <= dd[2])
         IN  Add(Mul(overlap(lo_x, hi_x, lo_y, hi_y, c[1], c[2]), u[map_index(c[1], c[2])]),
                 area_sum(cells \ {c}, lo_x, hi_x, lo_y, hi_y, u))

\* lines 319-327: the checks of adjust_node_area_forward
area_checks == numel(args.pos) % 2 = 0

AreaReject ==
    /\ area_phase = "idle"
    /\ ~area_checks
    /\ area_phase' = "failed"
    /\ UNCHANGED <<args, launch, instance_route_area, area_done, area_writes, map_reads, vars_wl>>

\* lines 334-343 against lines 256-258: the call gives num_bins_x,
\* num_bins_y, num_movable_nodes, num_threads, in this order, to the
\* parameters num_nodes, num_bins_x, num_bins_y, num_threads
bind ==
    [num_nodes   |-> args.num_bins_x,
     num_bins_x  |-> args.num_bins_y,
     num_bins_y  |-> args.num_movable_nodes,
     num_threads |-> args.num_threads]

\* lines 329-343: the result is allocated and the launcher is entered
AreaLaunch ==
    /\ area_phase = "idle"
    /\ area_checks
    /\ area_phase' = "parallel"
    /\ launch' = bind
    /\ instance_route_area' = [k \in 0..(num_nodes - 1) |-> Uninitialized]
    /\ area_done' = {}
    /\ UNCHANGED <<args, area_writes, map_reads, vars_wl>>

\* lines 267-297: the body of iteration i, run by whichever thread took it
AreaItem ==
    /\ area_phase = "parallel"
    /\ \E i \in (0..(launch.num_nodes - 1)) \ area_done :
       \E px \in read(args.pos, i), py \in read(args.pos, num_nodes + i),
          sx \in read(args.node_size_x, i), sy \in read(args.node_size_y, i) :
         LET box_x == bin_box(px, Add(px, sx), args.xl, inv_bin_size_x, launch.num_bins_x)
             box_y == bin_box(py, Add(py, sy), args.yl, inv_bin_size_y, launch.num_bins_y)
             cells == box_x \X box_y
             reads == {map_index(c[1], c[2]) : c \in cells}
             outside == reads \ DOMAIN args.routing_utilization_map
         IN  \E g \in [outside -> Garbage] :
               LET u == [k \in reads |-> IF k \in outside THEN g[k]
                                         ELSE args.routing_utilization_map[k]]
                   area == area_sum(cells, px, Add(px, sx), py, Add(py, sy), u)
               IN  /\ instance_route_area' =
                          IF i \in DOMAIN instance_route_area
                          THEN [instance_route_area EXCEPT ![i] = area]
                          ELSE instance_route_area
                   /\ area_done' = area_done \cup {i}
                   /\ area_writes' = area_writes \cup {i}
                   /\ map_reads' = map_reads \cup reads
    /\ UNCHANGED <<args, launch, area_phase, vars_wl>>

\* an access so far was outside its tensor
out_of_bounds ==
    \/ \E i \in area_done : i >= num_nodes \/ i >= numel(args.node_size_x)
                                           \/ i >= numel(args.node_size_y)
    \/ \E k \in map_reads : k \notin DOMAIN args.routing_utilization_map

\* after an access outside a tensor the process may die
AreaCrash ==
    /\ area_phase = "parallel"
    /\ out_of_bounds
    /\ area_phase' = "crashed"
    /\ UNCHANGED <<args, launch, instance_route_area, area_done, area_writes, map_reads, vars_wl>>

\* lines 298-346: the loop has run every iteration and the result is returned
AreaReturn ==
    /\ area_phase = "parallel"
    /\ area_done = 0..(launch.num_nodes - 1)
    /\ area_phase' = "returned"
    /\ UNCHANGED <<args, launch, instance_route_area, area_done, area_writes, map_reads, vars_wl>>

\* nodes on a diagonal of pitch s bins, the first one at offset off; some
\* lie left of the grid and some right of it
NodePos(n) ==
    {[k \in 0..(2 * n - 1) |-> ((k % n) * s) * SCALE + off] :
        s \in {1, 2}, off \in {-(2 * SCALE), SCALE \div 2}}

\* no call of the wirelength functions
no_wl_call ==
    /\ pos = <<>> /\ flat_netpin = <<>> /\ netpin_start = <<>> /\ net_mask = <<>>
    /\ net_weights = <<>> /\ inv_gamma = 0 /\ num_threads = 1 /\ grad_pos = 0
    /\ shape = <<>> /\ phase = "off" /\ partial_wl = <<>> /\ grad_intermediate = <<>>
    /\ next_iter = 0 /\ workers = <<>> /\ wl = <<>> /\ grad_out = <<>>
    /\ exec_count = <<>> /\ wl_writers = <<>> /\ grad_writers = <<>> /\ agg_seen = <<>>

\* every node count, movable count and grid up to the bounds, the map of
\* num_bins_x * num_bins_y entries, node sizes of one bin, and two pos
\* tensors with an odd number of elements
InitArea ==
    /\ no_wl_call
    /\ \E n \in 1..MaxNodes, nbx \in 1..MaxBins, nby \in 1..MaxBins, odd \in {0, 1} :
       \E nm \in 0..n, p \in NodePos(n) :
          /\ odd = 1 => (n = 1 /\ nm = 1 /\ nbx = 1 /\ nby = 1)
          /\ args = [pos |-> [k \in 0..(2 * n - 1 + odd) |-> IF k < 2 * n THEN p[k] ELSE 0],
                     node_size_x |-> [k \in 0..(n - 1) |-> SCALE],
                     node_size_y |-> [k \in 0..(n - 1) |-> SCALE],
                     routing_utilization_map |->
                         [k \in 0..(nbx * nby - 1) |-> (1 + (k % 2)) * SCALE],
                     bin_size_x |-> SCALE, bin_size_y |-> SCALE,
                     xl |-> 0, yl |-> 0,
                     num_movable_nodes |-> nm,
                     num_bins_x |-> nbx, num_bins_y |-> nby, num_threads |-> 1]
    /\ launch = <<>>
    /\ area_phase = "idle"
    /\ instance_route_area = <<>>
    /\ area_done = {}
    /\ area_writes = {}
    /\ map_reads = {}

NextArea ==
    \/ AreaReject
    \/ AreaLaunch
    \/ AreaItem
    \/ AreaCrash
    \/ AreaReturn

SpecArea == InitArea /\ [][NextArea]_vars


(***************************************************************************)
(* Properties                                                              *)
(***************************************************************************)
Nets == 0..(num_nets - 1)
Items == 0..(2 * num_nets - 1)
net_range(n) == netpin_start[n]..(netpin_start[n + 1] - 1)
pins_of(n) == {flat_netpin[j] : j \in net_range(n)}
item_range(i) == net_range(net_of(i))
\* every pin index appears in exactly one net's range
PinUnique ==
    \A p \in 0..(num_pins - 1) :
        Cardinality({j \in DOMAIN flat_netpin : flat_netpin[j] = p}) = 1
\* the weight of net n, 1 when no weights are given
weight_of(n) == IF numel(net_weights) # 0 THEN net_weights[n] ELSE SCALE
\* the pins of iteration i do not all have the same value on its axis
spread(i) == \E j, k \in item_range(i) : values(i, flat_netpin[j]) # values(i, flat_netpin[k])

\* C1: while forward runs and when it has returned, both partial-wirelength
\* slots of every masked-out net are 0, the x and y gradient slots of every
\* pin that is in no active net are 0, and a call with every net masked out
\* returns cost 0.
C1_MaskedNetsUntouched ==
    phase \in {"parallel", "returned"} =>
        /\ \A n \in Nets : ~net_mask[n] =>
              /\ partial_wl[2 * n] = 0
              /\ partial_wl[2 * n + 1] = 0
              /\ \A p \in pins_of(n) :
                    (\A m \in Nets : p \in pins_of(m) => ~net_mask[m]) =>
                        /\ grad_intermediate[p] = 0
                        /\ grad_intermediate[num_pins + p] = 0
        /\ (phase = "returned" /\ \A n \in Nets : ~net_mask[n]) => wl = <<0>>

\* forward has returned, a masked-out net has pins apart on both axes, and an
\* active net got a non-zero wirelength and a non-zero gradient
C1_Witness ==
    /\ phase = "returned"
    /\ \E n, m \in Nets :
          /\ ~net_mask[n] /\ spread(2 * n) /\ spread(2 * n + 1)
          /\ net_mask[m] /\ partial_wl[2 * m] # 0
          /\ \E p \in pins_of(m) : grad_intermediate[p] # 0

\* C2: when forward has returned, every active net with at least one pin
\* whose pins all have the same value on an axis has partial wirelength 0 on
\* that axis and gradient 0 at each of its pins on that axis.
C2_DegenerateNetsZero ==
    phase = "returned" =>
        \A i \in Items :
            (active(i) /\ item_range(i) # {} /\ ~spread(i)) =>
                /\ agg_seen[1][i] = 0
                /\ \A j \in item_range(i) : grad_intermediate[grad_slot(i, j)] = 0

\* the part of C2 the code keeps: the partial wirelength of such a net is 0
C2_DegenerateWirelengthZero ==
    phase = "returned" =>
        \A i \in Items :
            (active(i) /\ item_range(i) # {} /\ ~spread(i)) => agg_seen[1][i] = 0

RECURSIVE active_sum(_)
active_sum(n) ==
    IF n < num_nets
    THEN Add(IF net_mask[n]
             THEN Add(Mul(net_wl(2 * n), weight_of(n)), Mul(net_wl(2 * n + 1), weight_of(n)))
             ELSE 0,
             active_sum(n + 1))
    ELSE 0

\* C3: the cost forward returns is the sum, over the active nets and both
\* axes, of the net's weight (1 without weights) times the partial
\* wirelength of that net on that axis; masked-out nets add nothing.
C3_SumDecomposition == phase = "returned" => wl = <<active_sum(0)>>

\* a weighted call with two active nets of different weights and different
\* non-zero wirelengths has returned a defined cost
C3_Witness ==
    /\ phase = "returned"
    /\ numel(net_weights) # 0
    /\ wl # <<NaN>>
    /\ \E n, m \in Nets :
          /\ net_mask[n] /\ net_mask[m]
          /\ net_weights[n] # net_weights[m]
          /\ net_wl(2 * n) # 0 /\ net_wl(2 * m) # 0 /\ net_wl(2 * n) # net_wl(2 * m)

\* the exponent arguments of every pin of the iteration a worker is in
args_nonpositive(i) ==
    \A j \in item_range(i) :
        LET xx == values(i, flat_netpin[j])
        IN  arg_x(xx, x_max(i)) <= 0 /\ arg_nx(xx, x_min(i)) <= 0

\* C4 as claimed: for every inv_gamma, both exponent arguments of every pin
\* of an active net are <= 0.
C4_ExponentsNonPositive ==
    \A w \in DOMAIN workers : workers[w].pc = "grad" => args_nonpositive(workers[w].i)

\* C4 amended: for every inv_gamma >= 0, both exponent arguments of every
\* pin of an active net are <= 0.
C4_ExponentsNonPositiveForGamma ==
    inv_gamma >= 0 =>
        \A w \in DOMAIN workers : workers[w].pc = "grad" => args_nonpositive(workers[w].i)

\* a worker is in an active net whose pins are apart, inv_gamma is positive
\* and an exponent argument is strictly negative
C4_Witness ==
    \E w \in DOMAIN workers :
        /\ workers[w].pc = "grad"
        /\ inv_gamma > 0
        /\ spread(workers[w].i)
        /\ \E j \in item_range(workers[w].i) :
              arg_x(values(workers[w].i, flat_netpin[j]), x_max(workers[w].i)) < 0


(***************************************************************************)
(* The run of the loop by one thread: iterations 0, 1, ... in order, each  *)
(* storing its wirelength and then the gradients of its pins in order.     *)
(***************************************************************************)
RECURSIVE one_thread_item(_, _, _, _)
one_thread_item(buf, s, i, j) ==
    IF j < net_end(i)
    THEN one_thread_item([buf EXCEPT ![grad_slot(i, j)] = grad_from_sums(s, i, j)],
                         s, i, j + 1)
    ELSE buf
RECURSIVE one_thread_grad_from(_, _, _)
one_thread_grad_from(buf, lo, hi) ==
    IF hi - lo <= 0 THEN buf
    ELSE IF hi - lo = 1
    THEN IF active(lo)
         THEN LET item[s \in Sums] == one_thread_item(buf, s, lo, net_begin(lo))
              IN  item[sums(lo)]
         ELSE buf
    ELSE LET mid == (lo + hi) \div 2
             rest[b \in [DOMAIN buf -> Int]] == one_thread_grad_from(b, mid, hi)
         IN  rest[one_thread_grad_from(buf, lo, mid)]
one_thread_grad == one_thread_grad_from(Zeros(shape["pos"].numel), 0, 2 * num_nets)

RECURSIVE one_thread_wl_from(_, _, _)
one_thread_wl_from(buf, lo, hi) ==
    IF hi - lo <= 0 THEN buf
    ELSE IF hi - lo = 1
    THEN IF active(lo) THEN [buf EXCEPT ![wl_slot(lo)] = net_wl(lo)] ELSE buf
    ELSE LET mid == (lo + hi) \div 2
             rest[b \in [DOMAIN buf -> Int]] == one_thread_wl_from(b, mid, hi)
         IN  rest[one_thread_wl_from(buf, lo, mid)]
one_thread_wl == one_thread_wl_from(Zeros(2 * num_nets), 0, 2 * num_nets)

\* C5: with every pin in exactly one net, the gradient the first backward
\* call returns is, for every pin and axis, forward's intermediate gradient
\* times the upstream gradient times the weight of the pin's net (1 without
\* weights).
C5_BackwardResult ==
    (PinUnique /\ Len(grad_out) >= 1) =>
        \A forward_grad \in {one_thread_grad} :
            \A n \in Nets : \A p \in pins_of(n) : \A base \in {0, num_pins} :
                grad_out[1][base + p] =
                    Mul(Mul(forward_grad[base + p], grad_pos), weight_of(n))

\* a weighted backward call with an upstream gradient other than 1 has
\* returned; two nets have different weights and non-zero gradients
C5_Witness ==
    /\ PinUnique
    /\ Len(grad_out) >= 1
    /\ numel(net_weights) # 0
    /\ grad_pos # SCALE
    /\ \E n, m \in Nets :
          /\ net_weights[n] # net_weights[m]
          /\ \E p \in pins_of(n) : grad_out[1][p] # 0 /\ grad_out[1][p] # NaN
          /\ \E p \in pins_of(m) : grad_out[1][p] # 0 /\ grad_out[1][p] # NaN

\* C6: no step changes an argument of the calls; a backward call leaves
\* the intermediate gradient buffer it is given as it was, and returns what
\* the backward call before it returned.
C6_Stateless ==
    [][/\ inputs' = inputs
       /\ Len(grad_out') > Len(grad_out) =>
             /\ grad_intermediate' = grad_intermediate
             /\ Len(grad_out) >= 1 => grad_out'[Len(grad_out')] = grad_out[Len(grad_out)]]_vars

\* C7: with every pin in exactly one net, whatever the thread count and the
\* order of the workers' steps, the partial wirelengths, the intermediate
\* gradients and the cost of a returned forward call are those of the run
\* by one thread.
C7_ThreadCountInvariance ==
    (PinUnique /\ phase = "returned") =>
        /\ agg_seen = <<one_thread_wl>>
        /\ grad_intermediate = one_thread_grad
        /\ wl = <<sum(weighted(one_thread_wl))>>

\* a forward call by more than one thread over two active nets with
\* non-zero wirelengths has returned
C7_Witness ==
    /\ PinUnique
    /\ phase = "returned"
    /\ num_threads > 1
    /\ \E n, m \in Nets :
          /\ n # m /\ net_mask[n] /\ net_mask[m]
          /\ agg_seen[1][2 * n] # 0 /\ agg_seen[1][2 * m + 1] # 0
          /\ \E p \in pins_of(n) : grad_intermediate[p] # 0

bad_layout_forward ==
    \/ \E t \in Tensors \ {"grad_intermediate"} :
          shape[t].ndimension # 1 \/ ~shape[t].is_contiguous
    \/ shape["pos"].numel % 2 = 1
\* the same of the intermediate gradient buffer given to backward
bad_layout_gradient ==
    \/ shape["grad_intermediate"].ndimension # 1
    \/ ~shape["grad_intermediate"].is_contiguous
    \/ shape["grad_intermediate"].numel % 2 = 1

\* C9: with such a tensor among forward's arguments the call never gets
\* past its checks: nothing is allocated or written, no iteration is run,
\* nothing is returned.  With such an intermediate gradient buffer backward
\* returns nothing and leaves the buffer as forward left it.
C9_FailFast ==
    /\ bad_layout_forward =>
          /\ phase \in {"idle", "failed"}
          /\ partial_wl = <<>> /\ grad_intermediate = <<>>
          /\ exec_count = <<>> /\ wl_writers = <<>> /\ grad_writers = <<>>
          /\ wl = <<>> /\ grad_out = <<>>
    /\ bad_layout_gradient =>
          /\ phase # "backward"
          /\ grad_out = <<>>
          /\ (phase = "failed" /\ ~bad_layout_forward) => grad_intermediate = one_thread_grad

\* forward has failed on a pos tensor with an odd number of elements
C9_Witness == phase = "failed" /\ shape["pos"].numel % 2 = 1

\* C10: no iteration is entered twice; when the weighting and the sum have
\* read partial_wl, each of the 2 * num_nets iterations has been entered
\* once, every thread has left the loop, and every active iteration has
\* stored its wirelength and all its gradients.
C10_CompletionBeforeAggregation ==
    /\ phase \in {"parallel", "returned", "backward"} =>
          \A i \in Items : exec_count[i] <= 1
    /\ agg_seen # <<>> =>
          /\ \A w \in DOMAIN workers : workers[w].pc = "barrier"
          /\ \A i \in Items :
                /\ exec_count[i] = 1
                /\ active(i) =>
                      /\ i \in wl_writers[wl_slot(i)]
                      /\ \A j \in item_range(i) : i \in grad_writers[grad_slot(i, j)]

\* the aggregation of a call by more than one thread, which took the
\* iterations of active and of masked-out nets in chunks of more than one,
\* has run
C10_Witness ==
    /\ agg_seen # <<>>
    /\ num_threads > 1
    /\ chunk_size > 1
    /\ \E n, m \in Nets : n # m /\ net_mask[n] /\ net_mask[m] /\ ~net_mask[num_nets - 1]


\* C11: under fair scheduling of the threads a forward call that passed its
\* checks returns: from the start of the parallel loop the call always reaches
\* its return, and when it has returned every iteration of the loop has been
\* claimed and finished exactly once and every thread has left the loop.
C11_Termination ==
    /\ (phase = "parallel") ~> (phase = "returned")
    /\ [](phase = "returned" =>
            /\ \A i \in Items : exec_count[i] = 1
            /\ \A w \in DOMAIN workers : workers[w] = leave_loop)

C11_Witness ==
    /\ phase = "returned"
    /\ num_threads > 1
    /\ num_nets > 1
    /\ wl # <<>>
    /\ \A i \in Items : exec_count[i] = 1

\* the store of iteration i1 at cursor j1 and the store of iteration i2 at
\* cursor j2 go to one gradient slot: two active nets, one axis, one pin
same_slot(i1, j1, i2, j2) ==
    /\ net_of(i1) # net_of(i2)
    /\ i1 % 2 = i2 % 2
    /\ active(i1) /\ active(i2)
    /\ j1 \in item_range(i1) /\ j2 \in item_range(i2)
    /\ flat_netpin[j1] = flat_netpin[j2]
\* threads w and v are both about to store to one gradient slot
racing(w, v) ==
    /\ w # v
    /\ workers[w].pc = "grad" /\ workers[v].pc = "grad"
    /\ same_slot(workers[w].i, workers[w].j, workers[v].i, workers[v].j)
\* the values the writers of gradient slot k store to it
stored_to(k) ==
    UNION {{pin_grad(i, j) : j \in {jj \in item_range(i) : grad_slot(i, jj) = k}} :
              i \in grad_writers[k]}

\* C12: a pin listed by two active nets is not detected: a call fails only on
\* the layout or the device of a tensor.  When forward has returned, the gradient slot of such a pin
\* has been written by the iterations of both nets on that axis and holds the
\* value one of them stored.  While two threads are both about to store to
\* the slot, the store of one leaves its own value there and leaves the other
\* thread about to store, so the value at return is that of the last store.
C12_SharedPinRace ==
    /\ [](phase = "failed" =>
            \/ bad_layout_forward \/ bad_layout_gradient
            \/ \E t \in Tensors : shape[t].is_cuda)
    /\ [](phase = "returned" =>
            \A i1, i2 \in Items : \A j1 \in item_range(i1), j2 \in item_range(i2) :
                same_slot(i1, j1, i2, j2) =>
                    /\ {i1, i2} \subseteq grad_writers[grad_slot(i1, j1)]
                    /\ grad_intermediate[grad_slot(i1, j1)] \in stored_to(grad_slot(i1, j1)))
    /\ [][\A w, v \in DOMAIN workers :
            (phase = "parallel" /\ racing(w, v) /\ workers'[w] # workers[w]) =>
                /\ grad_intermediate'[grad_slot(workers[w].i, workers[w].j)]
                       = pin_grad(workers[w].i, workers[w].j)
                /\ workers'[v] = workers[v]]_vars

\* two threads are both about to store to the gradient slot of a shared pin,
\* each a different value, and neither has stored to it yet
C12_Witness ==
    /\ phase = "parallel"
    /\ num_threads > 1
    /\ \E w, v \in DOMAIN workers :
          /\ racing(w, v)
          /\ pin_grad(workers[w].i, workers[w].j) # pin_grad(workers[v].i, workers[v].j)
          /\ grad_writers[grad_slot(workers[w].i, workers[w].j)] = {}

\* C13: when forward has returned, for every iteration of an active net,
\* whatever the number of its pins, the two sums of exponentials it divided
\* by are not 0 and the value it stored in its partial-wirelength slot is a
\* number.
C13_DivisionsDefined ==
    phase = "returned" =>
        \A i \in Items :
            active(i) =>
                /\ sums(i).exp_x_sum # 0
                /\ sums(i).exp_nx_sum # 0
                /\ agg_seen[1][i] # NaN

\* the part of C13 the code keeps: the same of every active net that has a pin
C13_DivisionsDefinedNonEmpty ==
    phase = "returned" =>
        \A i \in Items :
            (active(i) /\ item_range(i) # {}) =>
                /\ sums(i).exp_x_sum # 0
                /\ sums(i).exp_nx_sum # 0
                /\ agg_seen[1][i] # NaN

\* the indices of the map of the call's grid
grid_indices ==
    {x * args.num_bins_y + y : x \in 0..(args.num_bins_x - 1), y \in 0..(args.num_bins_y - 1)}

\* C14: in a call of adjust_node_area_forward whose tensors have the sizes
\* its integers say, the launcher runs with the call's num_movable_nodes,
\* num_bins_x and num_bins_y; it writes instance_route_area at indices below
\* num_movable_nodes only and reads routing_utilization_map at indices of the
\* grid only, and when the call has returned it has processed and written
\* exactly the nodes 0..num_movable_nodes-1.
C14_InBounds ==
    area_phase \in {"parallel", "returned", "crashed"} =>
        /\ launch.num_nodes = args.num_movable_nodes
        /\ launch.num_bins_x = args.num_bins_x
        /\ launch.num_bins_y = args.num_bins_y
        /\ area_writes \subseteq 0..(args.num_movable_nodes - 1)
        /\ map_reads \subseteq grid_indices
        /\ area_phase = "returned" =>
              /\ area_done = 0..(args.num_movable_nodes - 1)
              /\ area_writes = 0..(args.num_movable_nodes - 1)

\* what the call does instead: the loop runs over the call's num_bins_x, the
\* box is clamped to num_bins_y by num_movable_nodes bins, and the map is
\* read with rows of num_movable_nodes elements
C14_AccessesOfTheCall ==
    area_phase \in {"parallel", "returned", "crashed"} =>
        /\ area_writes \subseteq 0..(args.num_bins_x - 1)
        /\ map_reads \subseteq
               {x * args.num_movable_nodes + y :
                   x \in 0..(args.num_bins_y - 1), y \in 0..(args.num_movable_nodes - 1)}
        /\ area_phase = "returned" => area_writes = 0..(args.num_bins_x - 1)

\* a returned call that left a movable node unwritten
C14_NodeSkipped ==
    /\ area_phase = "returned"
    /\ \E i \in 0..(args.num_movable_nodes - 1) :
          i \notin area_writes /\ instance_route_area[i] = Uninitialized

=============================================================================
